---- MODULE Spec2Model ----
(***************************************************************************)
(* Model of the Python code refactor tool: the POST /refactor handler of   *)
(* app/main.py, the analyzer of app/refactor/ast_analyzer.py and the five  *)
(* rules of app/refactor/refactor_rules.py.                                *)
(*                                                                         *)
(* Source text is a sequence of physical lines; a line is an indentation   *)
(* depth and a token (the statement written on the line).  Identifiers     *)
(* are sequences of characters, so len(name) and f"value_{name}" are       *)
(* computed as the code computes them.                                     *)
(***************************************************************************)
EXTENDS Integers, Sequences, FiniteSets, TLC

\* ------------------------------------------------------------------ bounds
MaxLines == 3
MaxOptions == 2
MaxRenameLines == 4
MaxSimplifyLines == 5
MaxDeadLines == 3
MaxDepth == 1
MaxBody == 20

\* ------------------------------------------------------- sequence helpers
RECURSIVE SumLen(_)
SumLen(ss) == IF ss = <<>> THEN 0 ELSE Len(Head(ss)) + SumLen(Tail(ss))

Range(s) == {s[i] : i \in 1..Len(s)}

Last(s) == s[Len(s)]

\* str(n) for a natural number: its decimal digits
Digit(d) == <<CASE d = 0 -> "0" [] d = 1 -> "1" [] d = 2 -> "2" [] d = 3 -> "3"
                [] d = 4 -> "4" [] d = 5 -> "5" [] d = 6 -> "6" [] d = 7 -> "7"
                [] d = 8 -> "8" [] OTHER -> "9">>

RECURSIVE Str(_)
Str(n) == IF n < 10 THEN Digit(n) ELSE Str(n \div 10) \o Digit(n % 10)

\* ------------------------------------------------------------ expressions
\* An expression is its node kind and the identifiers it loads, left to
\* right: Constant `1`, Name `p`, BinOp `p + q + 1`, BoolOp `a and b and c`,
\* and a BoolOp of comparisons `a > 0 and b > 0` (operand = "Compare").
Constant == [kind |-> "Constant", operand |-> "Name", ids |-> <<>>]
Name(id) == [kind |-> "Name", operand |-> "Name", ids |-> <<id>>]
BinOp(ids) == [kind |-> "BinOp", operand |-> "Name", ids |-> ids]
BoolOp(ids) == [kind |-> "BoolOp", operand |-> "Name", ids |-> ids]
BoolOpCompare(ids) == [kind |-> "BoolOp", operand |-> "Compare", ids |-> ids]

\* length of the expression as source text
ExprLen(e) ==
    CASE e.kind = "Constant" -> 1
      [] e.kind = "Name" -> SumLen(e.ids)
      [] e.kind = "BoolOp" ->
           SumLen(e.ids) + 5 * (Len(e.ids) - 1)
             + (IF e.operand = "Compare" THEN 4 * Len(e.ids) ELSE 0)
      [] OTHER -> SumLen(e.ids) + 3 * Len(e.ids) + 1

\* ----------------------------------------------------------------- tokens
NoExpr == [kind |-> "None", operand |-> "Name", ids |-> <<>>]
Tok(k, name, e) == [k |-> k, name |-> name, value |-> e]
TAssign(t, e) == Tok("assign", t, e)
TExpr(e) == Tok("expr", <<>>, e)
TIf(e) == Tok("if", <<>>, e)
TDef(name) == Tok("def", name, NoExpr)
TPass == Tok("pass", <<>>, NoExpr)
TBlank == Tok("blank", <<>>, NoExpr)
TComment == Tok("comment", <<>>, NoExpr)
\* a line that cannot be parsed: `print(` with the parenthesis left open
TBad == Tok("bad", <<>>, NoExpr)

Line(ind, tok) == [indent |-> ind, tok |-> tok]

\* len(line.strip()) of a line holding the token
StrippedLen(tok) ==
    CASE tok.k = "assign" -> Len(tok.name) + 3 + ExprLen(tok.value)
      [] tok.k = "expr" -> ExprLen(tok.value)
      [] tok.k = "if" -> 3 + ExprLen(tok.value) + 1
      [] tok.k = "def" -> 4 + Len(tok.name) + 3
      [] tok.k = "pass" -> 4
      [] tok.k = "blank" -> 0
      [] OTHER -> 6

\* ------------------------------------------------------------------ parse
\* ast.parse: statements are read at one indentation depth; a `def` or `if`
\* line owns the deeper block that follows it.  A line that is malformed,
\* deeper than expected, or a header without a block raises SyntaxError.
RECURSIVE NextCode(_, _)
NextCode(lines, i) ==
    IF i > Len(lines) THEN i
    ELSE IF lines[i].tok.k \in {"blank", "comment"} THEN NextCode(lines, i + 1)
    ELSE i

ParseFail == [ok |-> FALSE, body |-> <<>>, next |-> 0]

SimpleNode(tok, j) ==
    CASE tok.k = "assign" ->
           [kind |-> "Assign", targets |-> <<tok.name>>, name |-> <<>>,
            value |-> tok.value, body |-> <<>>, lineno |-> j, end_lineno |-> j]
      [] tok.k = "expr" ->
           [kind |-> "Expr", targets |-> <<>>, name |-> <<>>,
            value |-> tok.value, body |-> <<>>, lineno |-> j, end_lineno |-> j]
      [] OTHER ->
           [kind |-> "Pass", targets |-> <<>>, name |-> <<>>,
            value |-> NoExpr, body |-> <<>>, lineno |-> j, end_lineno |-> j]

BlockNode(tok, j, body) ==
    IF tok.k = "def"
    THEN [kind |-> "FunctionDef", targets |-> <<>>, name |-> tok.name,
          value |-> NoExpr, body |-> body, lineno |-> j,
          end_lineno |-> Last(body).end_lineno]
    ELSE [kind |-> "If", targets |-> <<>>, name |-> <<>>,
          value |-> tok.value, body |-> body, lineno |-> j,
          end_lineno |-> Last(body).end_lineno]

RECURSIVE ParseBlock(_, _, _)
ParseBlock(lines, i, ind) ==
    LET j == NextCode(lines, i) IN
    IF j > Len(lines) THEN [ok |-> TRUE, body |-> <<>>, next |-> j]
    ELSE LET ln == lines[j] IN
         IF ln.indent < ind THEN [ok |-> TRUE, body |-> <<>>, next |-> j]
         ELSE IF ln.indent > ind \/ ln.tok.k = "bad" THEN ParseFail
         ELSE IF ln.tok.k \in {"def", "if"}
         THEN LET inner == ParseBlock(lines, j + 1, ind + 1) IN
              IF ~inner.ok \/ inner.body = <<>> THEN ParseFail
              ELSE LET rest == ParseBlock(lines, inner.next, ind) IN
                   IF ~rest.ok THEN ParseFail
                   ELSE [ok |-> TRUE,
                         body |-> <<BlockNode(ln.tok, j, inner.body)>> \o rest.body,
                         next |-> rest.next]
         ELSE LET rest == ParseBlock(lines, j + 1, ind) IN
              IF ~rest.ok THEN ParseFail
              ELSE [ok |-> TRUE,
                    body |-> <<SimpleNode(ln.tok, j)>> \o rest.body,
                    next |-> rest.next]

\* ast.parse(code): [ok, body]; ok = FALSE stands for the SyntaxError raised
Parse(lines) ==
    LET r == ParseBlock(lines, 1, 0) IN
    IF r.ok /\ r.next > Len(lines) THEN [ok |-> TRUE, body |-> r.body]
    ELSE [ok |-> FALSE, body |-> <<>>]

\* -------------------------------------------------------------- to_source
\* astor.to_source: one line per statement or header, the block one level
\* deeper; a function definition is set off by blank lines (two at module
\* level, one when nested), none at the very start of the output.
HeaderTok(s) ==
    CASE s.kind = "Assign" -> TAssign(s.targets[1], s.value)
      [] s.kind = "Expr" -> TExpr(s.value)
      [] s.kind = "If" -> TIf(s.value)
      [] s.kind = "FunctionDef" -> TDef(s.name)
      [] OTHER -> TPass

BlankLines(n) == [i \in 1..n |-> Line(0, TBlank)]

RECURSIVE Unparse(_, _, _)
Unparse(body, k, ind) ==
    IF k > Len(body) THEN <<>>
    ELSE LET s == body[k]
             gap == IF ind = 0 /\ k = 1 THEN 0
                    ELSE IF s.kind = "FunctionDef" THEN (IF ind = 0 THEN 2 ELSE 1)
                    ELSE IF ind = 0 /\ body[k - 1].kind = "FunctionDef" THEN 2
                    ELSE 0
         IN BlankLines(gap) \o <<Line(ind, HeaderTok(s))>>
            \o (IF s.kind \in {"If", "FunctionDef"} THEN Unparse(s.body, 1, ind + 1)
                ELSE <<>>)
            \o Unparse(body, k + 1, ind)

ToSource(body) == Unparse(body, 1, 0)

\* ------------------------------------------------------- change records
\* A change record is the message text with the values formatted into it.
Change(msg, ids, line, text) == [msg |-> msg, ids |-> ids, line |-> line, text |-> text]
NoTok == Tok("none", <<>>, NoExpr)
SyntaxErrorMsg == <<<<"S", "y", "n", "t", "a", "x", "E", "r", "r", "o", "r">>>>

\* ------------------------------------------- rule: extract_duplicate
\* extract_duplicate_functions: a line-by-line scan of the raw text
RECURSIVE DuplicateScan(_, _, _, _)
DuplicateScan(lines, i, seen_lines, changes) ==
    IF i > Len(lines) THEN changes
    ELSE LET stripped == lines[i].tok IN
         IF stripped.k # "blank" /\ stripped.k # "comment" /\ StrippedLen(stripped) > 5
         THEN IF stripped \in seen_lines
              THEN DuplicateScan(lines, i + 1, seen_lines,
                       Append(changes, Change("Found duplicate code on line", <<>>, i, stripped)))
              ELSE DuplicateScan(lines, i + 1, seen_lines \cup {stripped}, changes)
         ELSE DuplicateScan(lines, i + 1, seen_lines, changes)

extract_duplicate_functions(text) ==
    [code |-> text, changes |-> DuplicateScan(text, 1, {}, <<>>)]

\* ------------------------------------------------ rule: rename_variables
RenameAllowListOfAnalyzer == {<<"i">>, <<"j">>, <<"k">>, <<"x">>, <<"y">>, <<"z">>}
RenameAllowList ==
    {<<"i">>, <<"j">>, <<"k">>, <<"x">>, <<"y">>, <<"z">>,
     <<"a">>, <<"b">>, <<"c">>, <<"d">>, <<"m">>, <<"n">>}

ValuePrefix == <<"v", "a", "l", "u", "e", "_">>

\* the test of VariableRenamer.visit_Assign on a target's name
ShouldRenameAnyLength(old_name) == old_name \notin RenameAllowList
ShouldRename(old_name) == Len(old_name) = 1 /\ old_name \notin RenameAllowList

\* VariableRenamer.__init__
VariableRenamerInit ==
    [changes_made |-> <<>>, renamed_vars |-> <<>>, current_function_vars |-> <<>>]

\* VariableRenamer.visit_Name on the names an expression loads
RenamerVisitLoads(e, st) ==
    [e EXCEPT !.ids = [n \in 1..Len(e.ids) |->
        IF e.ids[n] \in DOMAIN st.renamed_vars THEN st.renamed_vars[e.ids[n]]
        ELSE e.ids[n]]]

\* the loop over node.targets of VariableRenamer.visit_Assign
RECURSIVE RenamerTargets(_, _, _)
RenamerTargets(targets, k, st) ==
    IF k > Len(targets) THEN [targets |-> targets, st |-> st]
    ELSE LET old_name == targets[k] IN
         IF ShouldRename(old_name)
         THEN LET new_name == ValuePrefix \o old_name IN
              RenamerTargets([targets EXCEPT ![k] = new_name], k + 1,
                  [st EXCEPT
                     !.renamed_vars = [v \in DOMAIN st.renamed_vars \cup {old_name} |->
                                          IF v = old_name THEN new_name
                                          ELSE st.renamed_vars[v]],
                     !.changes_made = Append(st.changes_made,
                         Change("Renamed variable", <<old_name, new_name>>, 0, NoTok))])
         ELSE RenamerTargets(targets, k + 1, st)

\* VariableRenamer.visit over a statement list, in traversal order
RECURSIVE RenamerVisit(_, _)
RenamerVisit(body, st) ==
    IF body = <<>> THEN [body |-> <<>>, st |-> st]
    ELSE LET s == Head(body)
             r == CASE s.kind = "Assign" ->
                         LET t == RenamerTargets(s.targets, 1, st) IN
                         [node |-> [s EXCEPT !.targets = t.targets,
                                             !.value = RenamerVisitLoads(s.value, t.st)],
                          st |-> t.st]
                    [] s.kind = "FunctionDef" ->
                         \* the reset touches current_function_vars only
                         LET b == RenamerVisit(s.body,
                                     [st EXCEPT !.current_function_vars = <<>>]) IN
                         [node |-> [s EXCEPT !.body = b.body], st |-> b.st]
                    [] s.kind = "If" ->
                         LET b == RenamerVisit(s.body, st) IN
                         [node |-> [s EXCEPT !.value = RenamerVisitLoads(s.value, st),
                                             !.body = b.body],
                          st |-> b.st]
                    [] s.kind = "Expr" ->
                         [node |-> [s EXCEPT !.value = RenamerVisitLoads(s.value, st)],
                          st |-> st]
                    [] OTHER -> [node |-> s, st |-> st]
             rest == RenamerVisit(Tail(body), r.st)
         IN [body |-> <<r.node>> \o rest.body, st |-> rest.st]

rename_unclear_variables_silent(text) ==
    LET tree == Parse(text) IN
    IF ~tree.ok THEN [code |-> text, changes |-> <<>>]
    ELSE LET renamer == RenamerVisit(tree.body, VariableRenamerInit) IN
         [code |-> ToSource(renamer.body), changes |-> renamer.st.changes_made]

rename_unclear_variables(text) ==
    LET tree == Parse(text) IN
    IF ~tree.ok
    THEN [code |-> text,
          changes |-> <<Change("Could not rename variables", SyntaxErrorMsg, 0, NoTok)>>]
    ELSE LET renamer == RenamerVisit(tree.body, VariableRenamerInit) IN
         [code |-> ToSource(renamer.body), changes |-> renamer.st.changes_made]

\* ------------------------------------------- rule: simplify_conditionals
ShouldExecutePrefix ==
    <<"s", "h", "o", "u", "l", "d", "_", "e", "x", "e", "c", "u", "t", "e", "_">>

\* ConditionalSimplifier.__init__
ConditionalSimplifierInit ==
    [changes_made |-> <<>>, conditional_count |-> 0, new_assignments |-> <<>>]

\* the test of ConditionalSimplifier.visit_If
IsComplexTest(test) == test.kind = "BoolOp" /\ Len(test.ids) > 2

RECURSIVE SimplifierVisit(_, _)
SimplifierVisit(body, st) ==
    IF body = <<>> THEN [body |-> <<>>, st |-> st]
    ELSE LET s == Head(body)
             r == CASE s.kind = "If" ->
                         LET count == st.conditional_count + 1
                             var_name == ShouldExecutePrefix \o Str(count)
                             new_assign ==
                                 [kind |-> "Assign", targets |-> <<var_name>>,
                                  name |-> <<>>, value |-> s.value, body |-> <<>>,
                                  lineno |-> s.lineno, end_lineno |-> s.lineno]
                             st1 == IF IsComplexTest(s.value)
                                    THEN [st EXCEPT
                                           !.conditional_count = count,
                                           !.new_assignments = Append(@, new_assign),
                                           !.changes_made = Append(@,
                                               Change("Extracted complex conditional to variable",
                                                      <<var_name>>, 0, NoTok))]
                                    ELSE st
                             test1 == IF IsComplexTest(s.value) THEN Name(var_name)
                                      ELSE s.value
                             b == SimplifierVisit(s.body, st1)
                         IN [node |-> [s EXCEPT !.value = test1, !.body = b.body],
                             st |-> b.st]
                    [] s.kind = "FunctionDef" ->
                         LET b == SimplifierVisit(s.body, st) IN
                         IF b.st.new_assignments # <<>>
                         THEN [node |-> [s EXCEPT !.body = b.st.new_assignments \o b.body],
                               st |-> [b.st EXCEPT !.new_assignments = <<>>]]
                         ELSE [node |-> [s EXCEPT !.body = b.body], st |-> b.st]
                    [] OTHER -> [node |-> s, st |-> st]
             rest == SimplifierVisit(Tail(body), r.st)
         IN [body |-> <<r.node>> \o rest.body, st |-> rest.st]

simplify_complex_conditionals(text) ==
    LET tree == Parse(text) IN
    IF ~tree.ok
    THEN [code |-> text,
          changes |-> <<Change("Could not simplify conditionals", SyntaxErrorMsg, 0, NoTok)>>]
    ELSE LET simplifier == SimplifierVisit(tree.body, ConditionalSimplifierInit) IN
         [code |-> ToSource(simplifier.body), changes |-> simplifier.st.changes_made]

\* -------------------------------------------------- rule: extract_method
\* ast.dump(item): the statement without its positions
RECURSIVE Dump(_)
Dump(s) == [kind |-> s.kind, targets |-> s.targets, name |-> s.name, value |-> s.value,
            body |-> [n \in 1..Len(s.body) |-> Dump(s.body[n])]]

IsDumped(s) == s.kind \in {"Assign", "Expr"}

RECURSIVE ExtractorVisit(_, _)
ExtractorVisit(body, changes_made) ==
    IF body = <<>> THEN changes_made
    ELSE LET s == Head(body)
             function_body == SelectSeq(s.body, IsDumped)
             dup == \E m, n \in 1..Len(function_body) :
                        m < n /\ Dump(function_body[m]) = Dump(function_body[n])
             c1 == IF s.kind = "FunctionDef" /\ dup
                   THEN Append(changes_made,
                            Change("Found duplicate code pattern in function",
                                   <<s.name>>, 0, NoTok))
                   ELSE changes_made
         IN ExtractorVisit(Tail(body), ExtractorVisit(s.body, c1))

extract_method(text) ==
    LET tree == Parse(text) IN
    IF ~tree.ok
    THEN [code |-> text,
          changes |-> <<Change("Could not extract methods", SyntaxErrorMsg, 0, NoTok)>>]
    ELSE [code |-> ToSource(tree.body), changes |-> ExtractorVisit(tree.body, <<>>)]

\* ------------------------------------------------ rule: remove_dead_code
\* DeadCodeCleaner.__init__
DeadCodeCleanerInit == [changes_made |-> <<>>, used_vars |-> {}]

\* the loop over node.targets of DeadCodeCleaner.visit_Assign
RECURSIVE CleanerTargets(_, _, _)
CleanerTargets(targets, k, st) ==
    IF k > Len(targets) THEN st
    ELSE CleanerTargets(targets, k + 1,
             IF targets[k] \notin st.used_vars
             THEN [st EXCEPT !.changes_made = Append(@,
                      Change("Found unused variable", <<targets[k]>>, 0, NoTok))]
             ELSE st)

\* DeadCodeCleaner.visit_Name on the names an expression loads
CleanerVisitLoads(e, st) == [st EXCEPT !.used_vars = @ \cup Range(e.ids)]

RECURSIVE CleanerVisit(_, _)
CleanerVisit(body, st) ==
    IF body = <<>> THEN st
    ELSE LET s == Head(body)
             st1 == CASE s.kind = "Assign" ->
                           CleanerVisitLoads(s.value, CleanerTargets(s.targets, 1, st))
                      [] s.kind = "If" ->
                           CleanerVisit(s.body, CleanerVisitLoads(s.value, st))
                      [] s.kind = "Expr" -> CleanerVisitLoads(s.value, st)
                      [] s.kind = "FunctionDef" -> CleanerVisit(s.body, st)
                      [] OTHER -> st
         IN CleanerVisit(Tail(body), st1)

remove_dead_code(text) ==
    LET tree == Parse(text) IN
    IF ~tree.ok
    THEN [code |-> text,
          changes |-> <<Change("Could not remove dead code", SyntaxErrorMsg, 0, NoTok)>>]
    ELSE [code |-> ToSource(tree.body),
          changes |-> CleanerVisit(tree.body, DeadCodeCleanerInit).changes_made]

\* --------------------------------------------------------------- analyzer
AnalyzerAllowList == {<<"i">>, <<"j">>, <<"k">>, <<"x">>, <<"y">>, <<"z">>}

LongFunctionThreshold == 15
ComplexityThreshold == 2

\* CodeAnalyzer.__init__
CodeAnalyzerInit ==
    [long_functions |-> <<>>, duplicate_code |-> <<>>, unclear_variables |-> <<>>,
     complex_conditionals |-> <<>>, code_smells |-> <<>>]

\* function_lines of CodeAnalyzer.visit_FunctionDef
FunctionLinesInclusive(node) == node.end_lineno - node.lineno + 1
FunctionLines(node) ==
    IF node.end_lineno # 0 THEN node.end_lineno - node.lineno ELSE 0

\* CodeAnalyzer._check_conditional_complexity: 1 for the BoolOp, plus 1 for
\* each operand that is a Compare; names and constants count 0
CheckConditionalComplexity(test) ==
    IF test.kind = "BoolOp"
    THEN 1 + (IF test.operand = "Compare" THEN Len(test.ids) ELSE 0)
    ELSE 0

GlobalContext == <<"g", "l", "o", "b", "a", "l">>

\* the loop over node.targets of CodeAnalyzer.visit_Assign
RECURSIVE AnalyzerTargets(_, _, _, _)
AnalyzerTargets(node, k, analysis, current_function) ==
    IF k > Len(node.targets) THEN analysis
    ELSE LET var_name == node.targets[k] IN
         AnalyzerTargets(node, k + 1,
             IF Len(var_name) = 1 /\ var_name \notin AnalyzerAllowList
             THEN [analysis EXCEPT !.unclear_variables = Append(@,
                      [name |-> var_name, line |-> node.lineno,
                       context |-> IF current_function # <<>> THEN current_function
                                   ELSE GlobalContext])]
             ELSE analysis,
             current_function)

\* CodeAnalyzer.visit over a statement list; current_function is the name of
\* the enclosing function, <<>> for None
RECURSIVE AnalyzerVisit(_, _, _)
AnalyzerVisit(body, analysis, current_function) ==
    IF body = <<>> THEN analysis
    ELSE LET s == Head(body)
             a1 == CASE s.kind = "FunctionDef" ->
                          LET function_lines == FunctionLines(s) IN
                          AnalyzerVisit(s.body,
                              IF function_lines > LongFunctionThreshold
                              THEN [analysis EXCEPT !.long_functions = Append(@,
                                       [name |-> s.name, lines |-> function_lines,
                                        line |-> s.lineno])]
                              ELSE analysis,
                              s.name)
                     [] s.kind = "Assign" ->
                          AnalyzerTargets(s, 1, analysis, current_function)
                     [] s.kind = "If" ->
                          LET complexity == CheckConditionalComplexity(s.value) IN
                          AnalyzerVisit(s.body,
                              IF complexity > ComplexityThreshold
                              THEN [analysis EXCEPT !.complex_conditionals = Append(@,
                                       [line |-> s.lineno, complexity |-> complexity])]
                              ELSE analysis,
                              current_function)
                     [] OTHER -> analysis
         IN AnalyzerVisit(Tail(body), a1, current_function)

\* analyze_code: the findings, or the record with the "error" key
analyze_code(text) ==
    LET tree == Parse(text) IN
    IF tree.ok THEN AnalyzerVisit(tree.body, CodeAnalyzerInit, <<>>)
    ELSE [error |-> "Syntax error", long_functions |-> <<>>,
          unclear_variables |-> <<>>, complex_conditionals |-> <<>>]

Suggestion(msg, name, n) == [msg |-> msg, name |-> name, n |-> n]

get_suggestions_ignoring_error(analysis) ==
    <<Suggestion("Code looks good! No major issues found.", <<>>, 0)>>

get_suggestions(analysis) ==
    IF "error" \in DOMAIN analysis
    THEN <<Suggestion(analysis.error, <<>>, 0)>>
    ELSE LET suggestions ==
                 [n \in 1..Len(analysis.long_functions) |->
                     Suggestion("Function is lines long",
                                analysis.long_functions[n].name,
                                analysis.long_functions[n].lines)]
                 \o [n \in 1..Len(analysis.unclear_variables) |->
                     Suggestion("Variable has an unclear name",
                                analysis.unclear_variables[n].name, 0)]
                 \o [n \in 1..Len(analysis.complex_conditionals) |->
                     Suggestion("Complex conditional on line", <<>>,
                                analysis.complex_conditionals[n].line)]
         IN IF suggestions = <<>>
            THEN <<Suggestion("Code looks good! No major issues found.", <<>>, 0)>>
            ELSE suggestions

\* ------------------------------------------------------ POST /refactor
Rules == {"rename_variables", "extract_duplicate", "simplify_conditionals",
          "extract_method", "remove_dead_code"}

\* the order of the `if "<rule>" in request.refactor_options` blocks
RuleOrderDeadCodeFirst ==
    <<"remove_dead_code", "rename_variables", "extract_duplicate",
      "simplify_conditionals", "extract_method">>
RuleOrder ==
    <<"rename_variables", "extract_duplicate", "simplify_conditionals",
      "extract_method", "remove_dead_code">>

ApplyRule(rule, text) ==
    CASE rule = "rename_variables" -> rename_unclear_variables(text)
      [] rule = "extract_duplicate" -> extract_duplicate_functions(text)
      [] rule = "simplify_conditionals" -> simplify_complex_conditionals(text)
      [] rule = "extract_method" -> extract_method(text)
      [] OTHER -> remove_dead_code(text)

\* the rule blocks of refactor_code from the k-th on; `run` keeps, for each
\* rule that was called, what it was given and what it returned
RECURSIVE RunRules(_, _, _, _, _)
RunRules(k, refactor_options, refactored_code, changes, run) ==
    IF k > Len(RuleOrder)
    THEN [refactored_code |-> refactored_code, changes |-> changes, run |-> run]
    ELSE IF RuleOrder[k] \in Range(refactor_options)
    THEN LET r == ApplyRule(RuleOrder[k], refactored_code) IN
         RunRules(k + 1, refactor_options, r.code, changes \o r.changes,
                  Append(run, [rule |-> RuleOrder[k], input |-> refactored_code,
                               output |-> r.code, changes |-> r.changes]))
    ELSE RunRules(k + 1, refactor_options, refactored_code, changes, run)

\* ----------------------------------------------------------------- state
VARIABLES
    code,              \* request.code
    refactor_options,  \* request.refactor_options
    pc,                \* "pending": the request is being handled; "done": answered
    analysis,          \* the analysis computed for the request
    run,               \* the rule calls the handler made, in order
    response,          \* the RefactorResponse returned
    resubmitted        \* the client has posted the refactored code back

vars == <<code, refactor_options, pc, analysis, run, response, resubmitted>>

NoResponse ==
    [original_code |-> <<>>, refactored_code |-> <<>>, changes_made |-> <<>>,
     suggestions |-> <<>>]

\* refactor_code: the whole handler of POST /refactor
RefactorCode ==
    /\ pc = "pending"
    /\ LET result == RunRules(1, refactor_options, code, <<>>, <<>>) IN
       /\ analysis' = analyze_code(code)
       /\ run' = result.run
       /\ response' = [original_code |-> code,
                       refactored_code |-> result.refactored_code,
                       changes_made |-> result.changes,
                       suggestions |-> get_suggestions(analyze_code(code))]
    /\ pc' = "done"
    /\ UNCHANGED <<code, refactor_options, resubmitted>>

\* the client posts the refactored code back with the same options
Resubmit ==
    /\ pc = "done"
    /\ ~resubmitted
    /\ code' = response.refactored_code
    /\ pc' = "pending"
    /\ resubmitted' = TRUE
    /\ analysis' = CodeAnalyzerInit
    /\ run' = <<>>
    /\ response' = NoResponse
    /\ UNCHANGED refactor_options

Next == RefactorCode \/ Resubmit

\* ----------------------------------------------------------------- inputs
P == <<"p">>
Q == <<"q">>
R == <<"r">>
A == <<"a">>
B == <<"b">>
C == <<"c">>
F == <<"f">>
G == <<"g">>

\* every text of 1..n lines drawn from a set of lines
AllTexts(lineSet, n) == UNION {[1..m -> lineSet] : m \in 1..n}

\* every list of 0..n rule identifiers
OptionLists(n) == UNION {[1..m -> Rules] : m \in 0..n}

\* the texts of exactly n lines in which every line is indented as the line
\* before it allows
RECURSIVE Indented(_, _, _)
Indented(toks, n, depth) ==
    IF n = 0 THEN {<<>>}
    ELSE UNION {
           {Append(t, Line(ind, tok)) :
                ind \in (IF t = <<>> THEN {0}
                         ELSE IF Last(t).tok.k \in {"def", "if"}
                              THEN {Last(t).indent + 1} \cap 0..depth
                              ELSE 0..Last(t).indent),
                tok \in toks}
           : t \in Indented(toks, n - 1, depth)}

\* the parseable programs of 1..n lines over a set of tokens
Programs(toks, n, depth) ==
    {t \in UNION {Indented(toks, m, depth) : m \in 1..n} : Parse(t).ok}

InitWith(codes, optionLists) ==
    /\ code \in codes
    /\ refactor_options \in optionLists
    /\ pc = "pending"
    /\ analysis = CodeAnalyzerInit
    /\ run = <<>>
    /\ response = NoResponse
    /\ resubmitted = FALSE

\* requests of any text, parseable or not, with any list of rules
PipelineLines ==
    {Line(0, TAssign(P, Constant)), Line(0, TAssign(Q, BinOp(<<P>>))),
     Line(0, TIf(BoolOp(<<P, Q, R>>))), Line(1, TPass), Line(0, TBad)}

Init == InitWith(AllTexts(PipelineLines, MaxLines), OptionLists(MaxOptions))
Spec == Init /\ [][Next]_vars

\* rename_variables alone, on parseable programs with functions
RenameToks ==
    {TDef(F), TDef(G), TAssign(P, Constant), TAssign(Q, BinOp(<<P>>)), TAssign(A, Constant),
     TExpr(BinOp(<<P>>))}

InitRename ==
    InitWith(Programs(RenameToks, MaxRenameLines, MaxDepth), {<<"rename_variables">>})
SpecRename == InitRename /\ [][Next]_vars

\* simplify_conditionals alone, on parseable programs with nested functions
SimplifyToks ==
    {TDef(F), TIf(BoolOp(<<A, B, C>>)), TIf(BoolOp(<<A, B>>)), TPass}

InitSimplify ==
    InitWith(Programs(SimplifyToks, MaxSimplifyLines, MaxDepth + 1),
             {<<"simplify_conditionals">>})
SpecSimplify == InitSimplify /\ [][Next]_vars

\* remove_dead_code alone, on module-level statements
DeadToks ==
    {TAssign(P, Constant), TAssign(Q, BinOp(<<P>>)), TAssign(Q, Constant),
     TExpr(BinOp(<<P>>))}

InitDead == InitWith(Programs(DeadToks, MaxDeadLines, 0), {<<"remove_dead_code">>})
SpecDead == InitDead /\ [][Next]_vars

\* the analyzer on two functions of 1..MaxBody body lines each
FunctionText(name, n) == <<Line(0, TDef(name))>> \o [i \in 1..n |-> Line(1, TPass)]

AnalyzeTails ==
    {<<>>, <<Line(0, TAssign(P, Constant))>>,
     <<Line(0, TIf(BoolOpCompare(<<P, Q>>))), Line(1, TPass)>>}

InitAnalyze ==
    InitWith({FunctionText(F, n1) \o FunctionText(G, n2) \o tail :
                 n1 \in 1..MaxBody, n2 \in 1..MaxBody, tail \in AnalyzeTails},
             {<<>>})
SpecAnalyze == InitAnalyze /\ [][Next]_vars

\* ============================================================ properties
Done == pc = "done"
FirstRequest == Done /\ ~resubmitted

TreeRules == Rules \ {"extract_duplicate"}

HasPrefix(id, prefix) ==
    Len(id) > Len(prefix) /\ SubSeq(id, 1, Len(prefix)) = prefix

\* the statements of one scope in traversal order: the bodies of `if`
\* statements are part of the scope, the bodies of nested functions are not
RECURSIVE ScopeStmts(_)
ScopeStmts(body) ==
    IF body = <<>> THEN <<>>
    ELSE (IF Head(body).kind = "If" THEN <<Head(body)>> \o ScopeStmts(Head(body).body)
          ELSE <<Head(body)>>)
         \o ScopeStmts(Tail(body))

\* the function definitions of a tree, at any depth
RECURSIVE AllFunctions(_)
AllFunctions(body) ==
    UNION {IF body[k].kind = "FunctionDef"
           THEN {body[k]} \cup AllFunctions(body[k].body)
           ELSE AllFunctions(body[k].body) : k \in 1..Len(body)}

OutputTree == Parse(response.refactored_code).body

NoChange == [code |-> code, changes |-> <<>>]

\* ---------------------------------------------------------------- C1
\* C1 as stated: the selected rules run in the order the caller listed them,
\* so the rule calls the handler made follow the positions in refactor_options.
FirstIndex(list, rule) == CHOOSE n \in 1..Len(list) :
    list[n] = rule /\ \A m \in 1..(n - 1) : list[m] # rule

DiagnosticOf(rule) ==
    CASE rule = "rename_variables" -> "Could not rename variables"
      [] rule = "simplify_conditionals" -> "Could not simplify conditionals"
      [] rule = "extract_method" -> "Could not extract methods"
      [] OTHER -> "Could not remove dead code"

\* C2: a rule that fails (its input does not parse) returns its input
\* unchanged with exactly one diagnostic record, every selected rule is still
\* called, those after the failure included, and the request is answered.
C2_FailureIsLocal ==
    Done =>
      /\ \A n \in 1..Len(run) :
           (run[n].rule \in TreeRules /\ ~Parse(run[n].input).ok) =>
              /\ run[n].output = run[n].input
              /\ Len(run[n].changes) = 1
              /\ run[n].changes[1].msg = DiagnosticOf(run[n].rule)
      /\ {run[n].rule : n \in 1..Len(run)} = Range(refactor_options)
      /\ response.original_code = code
      /\ response.suggestions # <<>>

C2_Witness ==
    /\ Done
    /\ refactor_options = <<"rename_variables", "extract_duplicate">>
    /\ code = <<Line(0, TBad), Line(0, TBad)>>
    /\ Len(run) = 2
    /\ run[1].changes[1].msg = "Could not rename variables"
    /\ run[2].changes # <<>>

\* ---------------------------------------------------------------- C3
\* the lines extract_duplicate reports: long enough, and seen before
DuplicateLines(text) ==
    {n \in 1..Len(text) :
        /\ text[n].tok.k \notin {"blank", "comment"}
        /\ StrippedLen(text[n].tok) > 5
        /\ \E m \in 1..(n - 1) : text[m].tok = text[n].tok}

\* C3 as stated: on unparseable text the changes are empty or one diagnostic.
C3_AtMostOneChange ==
    (Done /\ ~Parse(code).ok) =>
      /\ response.refactored_code = response.original_code
      /\ Len(response.changes_made) <= 1
      /\ Len(response.suggestions) = 1
      /\ response.suggestions[1].msg = "Syntax error"

\* C3 amended: on unparseable text the refactored text equals the original,
\* the suggestions are the one entry describing the error, and the changes
\* hold one diagnostic for each selected rule that parses the text, plus the
\* duplicate-line records of extract_duplicate when it is selected.
C3_OneDiagnosticPerRule ==
    (Done /\ ~Parse(code).ok) =>
      /\ response.original_code = code
      /\ response.refactored_code = code
      /\ Len(response.suggestions) = 1
      /\ response.suggestions[1].msg = "Syntax error"
      /\ \A rule \in TreeRules :
           Cardinality({n \in 1..Len(response.changes_made) :
                           response.changes_made[n].msg = DiagnosticOf(rule)})
             = IF rule \in Range(refactor_options) THEN 1 ELSE 0
      /\ Len(response.changes_made) =
           Cardinality(TreeRules \cap Range(refactor_options))
             + (IF "extract_duplicate" \in Range(refactor_options)
                THEN Cardinality(DuplicateLines(code)) ELSE 0)

C3_Witness ==
    /\ Done
    /\ ~Parse(code).ok
    /\ refactor_options = <<"rename_variables", "remove_dead_code">>
    /\ Len(response.changes_made) = 2
    /\ Len(response.suggestions) = 1

\* ---------------------------------------------------------------- C4
\* C4: the rename table is per scope, so a load inside a function is never
\* rewritten because of a rename made in another function: in the output,
\* every load of a value_<letter> name inside a function follows an
\* assignment renamed to it in that function's own scope (or the name was
\* renamed at module level, outside every function).
RenamedBefore(ss, k, id) ==
    \E j \in 1..k : ss[j].kind = "Assign" /\ id \in Range(ss[j].targets)

C4_NoCrossFunctionRename ==
    (FirstRequest /\ refactor_options = <<"rename_variables">> /\ Parse(code).ok) =>
      \A fn \in AllFunctions(OutputTree) :
        LET ss == ScopeStmts(fn.body)
            top == ScopeStmts(OutputTree)
        IN \A k \in 1..Len(ss) : \A id \in Range(ss[k].value.ids) :
             HasPrefix(id, ValuePrefix) =>
               RenamedBefore(ss, k, id) \/ RenamedBefore(top, Len(top), id)

\* ---------------------------------------------------------------- C8
\* C8 as stated: `a = 1` becomes `value_a = 1`, with its change record.
C8_RenamesA ==
    (FirstRequest /\ refactor_options = <<"rename_variables">>
       /\ code = <<Line(0, TAssign(A, Constant))>>) =>
      /\ response.refactored_code = <<Line(0, TAssign(ValuePrefix \o A, Constant))>>
      /\ \E n \in 1..Len(response.changes_made) :
           /\ response.changes_made[n].msg = "Renamed variable"
           /\ response.changes_made[n].ids = <<A, ValuePrefix \o A>>

\* C8 amended: `a` is on the rule's allow-list, so `a = 1` is returned as it
\* is with no change record; a single letter off the list is renamed:
\* `p = 1` becomes `value_p = 1` with the record "Renamed variable 'p' to
\* 'value_p'".
C8_KeepsA_RenamesP ==
    (FirstRequest /\ refactor_options = <<"rename_variables">>) =>
      /\ code = <<Line(0, TAssign(A, Constant))>> =>
           /\ response.refactored_code = code
           /\ response.changes_made = <<>>
      /\ code = <<Line(0, TAssign(P, Constant))>> =>
           /\ response.refactored_code = <<Line(0, TAssign(ValuePrefix \o P, Constant))>>
           /\ response.changes_made =
                <<Change("Renamed variable", <<P, ValuePrefix \o P>>, 0, NoTok)>>

C8_Witness ==
    /\ FirstRequest
    /\ refactor_options = <<"rename_variables">>
    /\ code = <<Line(0, TAssign(A, Constant))>>
    /\ response.refactored_code = code

\* ---------------------------------------------------------------- C9
\* C9: rename_variables applied to its own output renames nothing: no change
\* record, and the text comes back as it went in.
C9_RenameIdempotent ==
    (Done /\ resubmitted /\ refactor_options = <<"rename_variables">>
       /\ Parse(code).ok) =>
      /\ response.changes_made = <<>>
      /\ response.refactored_code = code

C9_Witness ==
    /\ Done
    /\ resubmitted
    /\ refactor_options = <<"rename_variables">>
    /\ \E n \in 1..Len(code) :
         code[n].tok.k = "assign" /\ HasPrefix(code[n].tok.name, ValuePrefix)
    /\ \E n \in 1..Len(code) : code[n].tok.k = "def"
    /\ response.changes_made = <<>>

\* ---------------------------------------------------------------- C5
IsHoistedAssign(s) ==
    s.kind = "Assign" /\ HasPrefix(s.targets[1], ShouldExecutePrefix)

\* C5: every `if` of a function whose test was extracted finds the
\* assignment of its should_execute_<n> in the body of that function, among
\* the hoisted assignments at the start of the body, and each extraction
\* adds one change record.
C5_HoistedIntoEnclosingFunction ==
    (FirstRequest /\ refactor_options = <<"simplify_conditionals">> /\ Parse(code).ok) =>
      /\ \A fn \in AllFunctions(OutputTree) :
           LET ss == ScopeStmts(fn.body) IN
           \A k \in 1..Len(ss) :
             (ss[k].kind = "If" /\ ss[k].value.kind = "Name"
                /\ HasPrefix(ss[k].value.ids[1], ShouldExecutePrefix)) =>
               \E j \in 1..Len(fn.body) :
                 /\ fn.body[j].kind = "Assign"
                 /\ fn.body[j].targets = ss[k].value.ids
                 /\ fn.body[j].value.kind = "BoolOp"
                 /\ \A i \in 1..j : IsHoistedAssign(fn.body[i])
      /\ Len(response.changes_made) =
           Cardinality({n \in 1..Len(code) :
                           code[n].tok.k = "if" /\ Len(code[n].tok.value.ids) > 2})

\* ---------------------------------------------------------------- C6
Scenario2 == <<Line(0, TIf(BoolOp(<<A, B, C>>))), Line(1, TPass)>>

\* C6: `if a and b and c: pass` at module level comes back as the assignment
\* should_execute_1 = a and b and c followed by `if should_execute_1:`; in
\* every output, a should_execute_<n> used as an `if` test is assigned on an
\* earlier line.
C6_DefinedBeforeUse ==
    (FirstRequest /\ refactor_options = <<"simplify_conditionals">> /\ Parse(code).ok) =>
      LET out == response.refactored_code IN
      /\ code = Scenario2 =>
           out = <<Line(0, TAssign(ShouldExecutePrefix \o <<"1">>, BoolOp(<<A, B, C>>))),
                   Line(0, TIf(Name(ShouldExecutePrefix \o <<"1">>))),
                   Line(1, TPass)>>
      /\ \A n \in 1..Len(out) :
           (out[n].tok.k = "if" /\ out[n].tok.value.kind = "Name"
              /\ HasPrefix(out[n].tok.value.ids[1], ShouldExecutePrefix)) =>
             \E m \in 1..(n - 1) :
               out[m].tok.k = "assign" /\ <<out[m].tok.name>> = out[n].tok.value.ids

\* ---------------------------------------------------------------- C7
AssignedNames(text) == {text[n].tok.name : n \in {m \in 1..Len(text) : text[m].tok.k = "assign"}}
LoadedNames(text) == UNION {Range(text[n].tok.value.ids) : n \in 1..Len(text)}

\* C7: remove_dead_code reports an assigned name exactly when the name is
\* loaded nowhere in the program, before or after the assignment, and returns
\* the statements as they were.
C7_UnusedIffNeverLoaded ==
    (FirstRequest /\ refactor_options = <<"remove_dead_code">> /\ Parse(code).ok) =>
      /\ \A id \in AssignedNames(code) :
           (\E n \in 1..Len(response.changes_made) :
               /\ response.changes_made[n].msg = "Found unused variable"
               /\ response.changes_made[n].ids = <<id>>)
             <=> id \notin LoadedNames(code)
      /\ Parse(response.refactored_code).body = Parse(code).body

\* --------------------------------------------------------------- C10
\* the lines a definition at line n spans, from its def line to its last line
RECURSIVE BlockEnd(_, _, _)
BlockEnd(text, n, ind) ==
    IF n < Len(text) /\ text[n + 1].indent > ind THEN BlockEnd(text, n + 1, ind)
    ELSE n

Span(text, n) == BlockEnd(text, n, text[n].indent) - n + 1

DefLines(text) == {n \in 1..Len(text) : text[n].tok.k = "def"}

LongFindings(n) ==
    {m \in 1..Len(analysis.long_functions) : analysis.long_functions[m].line = n}

\* C10 as stated: the reported line count of a function is the number of lines
\* it spans, and the finding is emitted exactly when that number exceeds 15.
C10_LineCountIsSpan ==
    (Done /\ Parse(code).ok) =>
      \A n \in DefLines(code) :
        /\ (Span(code, n) > 15) <=> (LongFindings(n) # {})
        /\ \A m \in LongFindings(n) : analysis.long_functions[m].lines = Span(code, n)

\* C10 amended: the reported line count is end line minus start line, one
\* less than the lines the function spans (19 for a function spanning 20
\* lines); the finding is emitted, once, exactly when that difference exceeds
\* 15, and its suggestion carries the function's name and that count.
C10_LineCountIsEndMinusStart ==
    (Done /\ Parse(code).ok) =>
      \A n \in DefLines(code) :
        /\ (Span(code, n) - 1 > 15) <=> (LongFindings(n) # {})
        /\ Cardinality(LongFindings(n)) <= 1
        /\ \A m \in LongFindings(n) :
             /\ analysis.long_functions[m].lines = Span(code, n) - 1
             /\ analysis.long_functions[m].name = code[n].tok.name
             /\ \E k \in 1..Len(response.suggestions) :
                  /\ response.suggestions[k].msg = "Function is lines long"
                  /\ response.suggestions[k].name = code[n].tok.name
                  /\ response.suggestions[k].n = Span(code, n) - 1

C10_Witness ==
    /\ FirstRequest
    /\ code[1].tok.k = "def"
    /\ Span(code, 1) = 20
    /\ analysis.long_functions # <<>>
    /\ analysis.long_functions[1].lines = 19
    /\ response.suggestions[1].name = F
====
